---- MODULE Spec2Model ----
(***************************************************************************)
(* GoEvals (src/main.go): JSONL ingestion, grouping-key construction,      *)
(* aggregation (CalculateStats), the refresh controller (reloadData) and   *)
(* the HTTP handlers that read the published result evalData.              *)
(*                                                                         *)
(* Go strings are modelled as sequences of byte values and are compared    *)
(* bytewise, as Go compares them.  float64 values are modelled by          *)
(* integers (a score of 8 stands for 0.8); a quotient is kept as a         *)
(* reduced fraction <<numerator, denominator>>.                            *)
(***************************************************************************)
EXTENDS Integers, Sequences, FiniteSets, TLC

VARIABLES
    files,      \* the configured record stores, in evalFilenames order
    evalData,   \* the global published DashboardData (Results is a slice: a heap reference)
    heap,       \* backing arrays of the Results slices, by reference
    procs,      \* in-flight HTTP handlers: position and locals
    lastReload, \* whether reloadData has been called by a handler, and what it returned
    response,   \* the last response written by a handler
    input,      \* pure-function runs: the input drawn in Init
    output,     \* pure-function runs: the value computed from input
    now,        \* the wall clock, in half seconds
    page        \* the dashboard page open in the browser and its polling script

vars == <<files, evalData, heap, procs, lastReload, response, input, output, now, page>>

----------------------------------------------------------------------------
(* Bounds of the model *)

\* number of lines in one record store
MaxLines == 2
\* number of selectors for the enumeration order of a Go map (both orders of a two-key map)
MapOrders == 2

----------------------------------------------------------------------------
(* Strings *)

kTimestamp == <<116,105,109,101,115,116,97,109,112>>          \* "timestamp"
kModel == <<109,111,100,101,108>>                             \* "model"
kTestID == <<116,101,115,116,95,105,100>>                     \* "test_id"
kQuestion == <<113,117,101,115,116,105,111,110>>              \* "question"
kResponse == <<114,101,115,112,111,110,115,101>>              \* "response"
kExpected == <<101,120,112,101,99,116,101,100>>               \* "expected"
kScores == <<115,99,111,114,101,115>>                         \* "scores"
kResponseTimeMS == <<114,101,115,112,111,110,115,101,95,116,105,109,101,95,109,115>> \* "response_time_ms"
kMetadata == <<109,101,116,97,100,97,116,97>>                 \* "metadata"
kJudgeModel == <<106,117,100,103,101,95,109,111,100,101,108>> \* "judge_model"
kJudgeFactual == <<106,117,100,103,101,95,102,97,99,116,117,97,108,95,114,101,97,115,111,110,105,110,103>> \* "judge_factual_reasoning"
kJudgeFaithful == <<106,117,100,103,101,95,102,97,105,116,104,102,117,108,95,114,101,97,115,111,110,105,110,103>> \* "judge_faithful_reasoning"
kJudgeContext == <<106,117,100,103,101,95,99,111,110,116,101,120,116,95,114,101,97,115,111,110,105,110,103>> \* "judge_context_reasoning"
kCombined == <<99,111,109,98,105,110,101,100>>                \* "combined"
kQuestionID == <<113,117,101,115,116,105,111,110,95,105,100>> \* "question_id"
kTestRunDate == <<116,101,115,116,95,114,117,110,95,100,97,116,101>> \* "test_run_date"
kRunID == <<114,117,110,95,105,100>>                          \* "run_id"

\* mutant of StrLess: equal strings compare as less
StrLess_OrEqual(a, b) ==
    \/ a = b
    \/ \E i \in 1..Len(b) :
          /\ \A j \in 1..(i-1) : j <= Len(a) /\ a[j] = b[j]
          /\ (i > Len(a) \/ a[i] < b[i])

\* Go's < on strings: bytewise lexicographic order
StrLess(a, b) ==
    \E i \in 1..Len(b) :
        /\ \A j \in 1..(i-1) : j <= Len(a) /\ a[j] = b[j]
        /\ (i > Len(a) \/ a[i] < b[i])

\* mutant of InsertSorted: the string is put in front of the list
InsertSorted_Front(s, x) == <<x>> \o s

\* insertion of one string into an ascending list
RECURSIVE InsertSorted(_, _)
InsertSorted(s, x) ==
    IF s = <<>> THEN <<x>>
    ELSE IF StrLess(x, Head(s)) THEN <<x>> \o s
    ELSE <<Head(s)>> \o InsertSorted(Tail(s), x)

\* mutant of SortStrings: the list is left in the order it was collected
SortStrings_None(s) == s

\* sort.Strings: the ascending arrangement of a list of strings
RECURSIVE SortStrings(_)
SortStrings(s) ==
    IF s = <<>> THEN <<>> ELSE InsertSorted(SortStrings(Tail(s)), Head(s))

Range(s) == {s[i] : i \in DOMAIN s}

RemoveAt(s, i) == SubSeq(s, 1, i-1) \o SubSeq(s, i+1, Len(s))

RECURSIVE SetToSortedSeq(_)
SetToSortedSeq(S) ==
    IF S = {} THEN <<>>
    ELSE LET x == CHOOSE y \in S : \A z \in S : z = y \/ StrLess(y, z)
         IN <<x>> \o SetToSortedSeq(S \ {x})

\* the k-th arrangement of a list (k taken as a mixed-radix number)
RECURSIVE PickOrder(_, _)
PickOrder(L, k) ==
    IF L = <<>> THEN <<>>
    ELSE LET i == (k % Len(L)) + 1
         IN <<L[i]>> \o PickOrder(RemoveAt(L, i), k \div Len(L))

\* `for key := range m`: Go enumerates the keys of a map in an unspecified
\* order; k selects which one
MapRange(S, k) == PickOrder(SetToSortedSeq(S), k)

----------------------------------------------------------------------------
(* JSON values, as json.Unmarshal stores them into interface{} *)

JNum(n) == [t |-> "number", n |-> n, s |-> <<>>, o |-> <<>>]
JStr(s) == [t |-> "string", n |-> 0, s |-> s, o |-> <<>>]
JBool(b) == [t |-> "bool", n |-> IF b THEN 1 ELSE 0, s |-> <<>>, o |-> <<>>]
JNull == [t |-> "null", n |-> 0, s |-> <<>>, o |-> <<>>]
JObj(fields) == [t |-> "object", n |-> 0, s |-> <<>>, o |-> fields]

Fld(name, val) == [name |-> name, val |-> val]

\* a JSON object decoded into a Go map: a repeated name keeps its last value
ToMap(fields) ==
    LET names == {fields[i].name : i \in DOMAIN fields}
        last(nm) == CHOOSE i \in DOMAIN fields :
                        /\ fields[i].name = nm
                        /\ \A j \in DOMAIN fields : fields[j].name = nm => j <= i
    IN [nm \in names |-> fields[last(nm)].val]

\* decimal text of a small natural number
Digits(n) == IF n < 10 THEN <<48 + n>> ELSE <<48 + (n \div 10), 48 + (n % 10)>>

\* mutant of FormatV: a text value is written in quotes, as %q writes it
FormatV_Quoted(v) ==
    CASE v.t = "number" -> Digits(v.n)
      [] v.t = "string" -> <<34>> \o v.s \o <<34>>
      [] v.t = "bool" -> IF v.n = 1 THEN <<116,114,117,101>> ELSE <<102,97,108,115,101>>
      [] v.t = "null" -> <<60,110,105,108,62>>
      [] OTHER -> <<109,97,112,91,93>>

\* fmt.Sprintf("%v", value) for a value held in an interface{}
FormatV(v) ==
    CASE v.t = "number" -> Digits(v.n)
      [] v.t = "string" -> v.s
      [] v.t = "bool" -> IF v.n = 1 THEN <<116,114,117,101>> ELSE <<102,97,108,115,101>>
      [] v.t = "null" -> <<60,110,105,108,62>>
      [] OTHER -> <<109,97,112,91,93>>

----------------------------------------------------------------------------
(* Lines of a record store *)

\* kind: "blank" (empty line), "garbage" (not JSON), "scalar" (JSON, not an
\* object), "null" (the JSON literal null), "object"; long: the line exceeds
\* the scanner's token limit
BlankLine == [kind |-> "blank", long |-> FALSE, fields |-> <<>>]
GarbageLine == [kind |-> "garbage", long |-> FALSE, fields |-> <<>>]
ScalarLine == [kind |-> "scalar", long |-> FALSE, fields |-> <<>>]
NullLine == [kind |-> "null", long |-> FALSE, fields |-> <<>>]
ObjLine(fields) == [kind |-> "object", long |-> FALSE, fields |-> fields]
LongLine(line) == [line EXCEPT !.long = TRUE]

----------------------------------------------------------------------------
(* Decoding *)

knownFields == {kTimestamp, kModel, kTestID, kQuestion, kResponse, kExpected,
                kScores, kResponseTimeMS, kMetadata, kJudgeModel,
                kJudgeFactual, kJudgeFaithful, kJudgeContext}

\* the zero ScoreBreakdown and the zero EvalResult (`var result EvalResult`)
ZeroScores == [Combined |-> 0, Custom |-> <<>>]

ZeroResult == [Timestamp |-> <<>>, Model |-> <<>>, TestID |-> <<>>,
               Scores |-> ZeroScores, ResponseTimeMS |-> 0,
               Metadata |-> JNull, JudgeModel |-> <<>>, CustomFields |-> <<>>]

\* mutant of ScoreBreakdownUnmarshal: an entry that is not a number is a
\* decode error
ScoreBreakdownUnmarshal_Strict(sb, v) ==
    IF v.t \notin {"object", "null"} THEN [err |-> TRUE, sb |-> sb]
    ELSE LET raw == ToMap(v.o)
             custom == {nm \in DOMAIN raw : nm # kCombined /\ raw[nm].t = "number"}
         IN [err |-> \E nm \in DOMAIN raw : raw[nm].t # "number",
             sb |-> [Combined |-> IF kCombined \in DOMAIN raw /\ raw[kCombined].t = "number"
                                  THEN raw[kCombined].n ELSE sb.Combined,
                     Custom |-> [nm \in custom |-> raw[nm].n]]]

\* ScoreBreakdown.UnmarshalJSON on the value of "scores"
ScoreBreakdownUnmarshal(sb, v) ==
    IF v.t \notin {"object", "null"} THEN [err |-> TRUE, sb |-> sb]
    ELSE LET raw == ToMap(v.o)
             custom == {nm \in DOMAIN raw : nm # kCombined /\ raw[nm].t = "number"}
         IN [err |-> FALSE,
             sb |-> [Combined |-> IF kCombined \in DOMAIN raw /\ raw[kCombined].t = "number"
                                  THEN raw[kCombined].n ELSE sb.Combined,
                     Custom |-> [nm \in custom |-> raw[nm].n]]]

\* a name with its letters A-Z in lower case
ToLower(s) == [i \in DOMAIN s |-> IF s[i] >= 65 /\ s[i] <= 90 THEN s[i] + 32 ELSE s[i]]

\* json.Unmarshal(data, aux): the struct fields, one top-level field at a time;
\* encoding/json matches a name with a field's tag without regard to case
DecodeField(st, f) ==
    LET v == f.val
        name == ToLower(f.name)
        er == st.er
        bad == [st EXCEPT !.err = TRUE]
        str(set) == IF v.t = "string" THEN [st EXCEPT !.er = set]
                    ELSE IF v.t = "null" THEN st ELSE bad
    IN CASE name = kTimestamp -> str([er EXCEPT !.Timestamp = v.s])
         [] name = kModel -> str([er EXCEPT !.Model = v.s])
         [] name = kTestID -> str([er EXCEPT !.TestID = v.s])
         [] name = kJudgeModel -> str([er EXCEPT !.JudgeModel = v.s])
         [] name \in {kQuestion, kResponse, kExpected, kJudgeFactual,
                        kJudgeFaithful, kJudgeContext} -> str(er)
         [] name = kResponseTimeMS ->
                IF v.t = "number" THEN [st EXCEPT !.er.ResponseTimeMS = v.n]
                ELSE IF v.t = "null" THEN st ELSE bad
         [] name = kMetadata ->
                IF v.t \in {"object", "null"} THEN [st EXCEPT !.er.Metadata = v] ELSE bad
         [] name = kScores ->
                LET r == ScoreBreakdownUnmarshal(er.Scores, v)
                IN IF r.err THEN bad ELSE [st EXCEPT !.er.Scores = r.sb]
         [] OTHER -> st

RECURSIVE DecodeKnown(_, _)
DecodeKnown(fields, st) ==
    IF fields = <<>> THEN st
    ELSE DecodeKnown(Tail(fields), DecodeField(st, Head(fields)))

\* mutant of UnmarshalEvalResult: a name that matches a struct field without
\* regard to case is not a custom field
UnmarshalEvalResult_FoldedKnown(line) ==
    CASE line.kind \in {"blank", "garbage", "scalar"} -> [err |-> TRUE, er |-> ZeroResult]
      [] line.kind = "null" -> [err |-> FALSE, er |-> ZeroResult]
      [] OTHER ->
            LET raw == ToMap(line.fields)
                st == DecodeKnown(line.fields, [err |-> FALSE, er |-> ZeroResult])
                custom == {nm \in DOMAIN raw : ToLower(nm) \notin knownFields}
            IN IF st.err THEN [err |-> TRUE, er |-> ZeroResult]
               ELSE [err |-> FALSE,
                     er |-> [st.er EXCEPT !.CustomFields = [nm \in custom |-> raw[nm]]]]

\* json.Unmarshal(line, &result), which runs EvalResult.UnmarshalJSON
UnmarshalEvalResult(line) ==
    CASE line.kind \in {"blank", "garbage", "scalar"} -> [err |-> TRUE, er |-> ZeroResult]
      [] line.kind = "null" -> [err |-> FALSE, er |-> ZeroResult]
      [] OTHER ->
            LET raw == ToMap(line.fields)
                st == DecodeKnown(line.fields, [err |-> FALSE, er |-> ZeroResult])
                custom == {nm \in DOMAIN raw : nm \notin knownFields}
            IN IF st.err THEN [err |-> TRUE, er |-> ZeroResult]
               ELSE [err |-> FALSE,
                     er |-> [st.er EXCEPT !.CustomFields = [nm \in custom |-> raw[nm]]]]

\* ScoreBreakdown.MarshalJSON: "combined" and every custom score, the names in
\* the sorted order json.Marshal writes a map in
ScoreBreakdownMarshal(sb) ==
    LET result == [nm \in {kCombined} \cup DOMAIN sb.Custom |->
                      IF nm \in DOMAIN sb.Custom THEN JNum(sb.Custom[nm])
                      ELSE JNum(sb.Combined)]
        names == SetToSortedSeq(DOMAIN result)
    IN JObj([i \in DOMAIN names |-> Fld(names[i], result[names[i]])])

\* EvalResult.MarshalJSON: the line written for a record
MarshalEvalResult(er) ==
    LET known == [nm \in {kTimestamp, kModel, kTestID, kScores, kResponseTimeMS}
                              \cup (IF er.Metadata.t = "object" THEN {kMetadata} ELSE {}) |->
                     CASE nm = kTimestamp -> JStr(er.Timestamp)
                       [] nm = kModel -> JStr(er.Model)
                       [] nm = kTestID -> JStr(er.TestID)
                       [] nm = kScores -> ScoreBreakdownMarshal(er.Scores)
                       [] nm = kResponseTimeMS -> JNum(er.ResponseTimeMS)
                       [] OTHER -> er.Metadata]
        cf == er.CustomFields
        result == [nm \in DOMAIN known \cup DOMAIN cf |->
                      IF nm \in DOMAIN cf THEN cf[nm] ELSE known[nm]]
        names == SetToSortedSeq(DOMAIN result)
    IN ObjLine([i \in DOMAIN names |-> Fld(names[i], result[names[i]])])

\* mutant of ScanLoop: an over-long line is skipped like an undecodable one
RECURSIVE ScanLoop_SkipLong(_, _)
ScanLoop_SkipLong(lines, results) ==
    IF lines = <<>> THEN [results |-> results, err |-> "nil"]
    ELSE LET d == UnmarshalEvalResult(Head(lines))
         IN ScanLoop_SkipLong(Tail(lines),
                IF Head(lines).long \/ d.err THEN results ELSE Append(results, d.er))

\* the scanner loop of ParseJSONL
RECURSIVE ScanLoop(_, _)
ScanLoop(lines, results) ==
    IF lines = <<>> THEN [results |-> results, err |-> "nil"]
    ELSE IF Head(lines).long THEN [results |-> <<>>, err |-> "read"]
    ELSE LET d == UnmarshalEvalResult(Head(lines))
         IN ScanLoop(Tail(lines), IF d.err THEN results ELSE Append(results, d.er))

ParseJSONL(file) ==
    IF ~file.readable THEN [results |-> <<>>, err |-> "open"]
    ELSE ScanLoop(file.lines, <<>>)

----------------------------------------------------------------------------
(* Grouping key *)

\* mutant of excludedFields: test_run_date is a key field
excludedFields_OnlyQuestionID == {kQuestionID}

excludedFields == {kQuestionID, kTestRunDate}

\* "|%s=%v" for each field of the sorted list, appended to the key
RECURSIVE AppendFields(_, _, _)
AppendFields(key, fields, customFields) ==
    IF fields = <<>> THEN key
    ELSE AppendFields(key \o <<124>> \o Head(fields) \o <<61>>
                          \o FormatV(customFields[Head(fields)]),
                      Tail(fields), customFields)

\* mutant of ConfigKeyFields: the collected names are not sorted
ConfigKeyFields_Unsorted(result, k) ==
    SelectSeq(MapRange(DOMAIN result.CustomFields, k),
              LAMBDA nm : nm \notin excludedFields)

\* the field names collected from the map, in enumeration order k, then sorted
ConfigKeyFields(result, k) ==
    SortStrings(SelectSeq(MapRange(DOMAIN result.CustomFields, k),
                          LAMBDA nm : nm \notin excludedFields))

buildConfigKey(result, k) ==
    AppendFields(result.Model, ConfigKeyFields(result, k), result.CustomFields)

----------------------------------------------------------------------------
(* Aggregation *)

RECURSIVE Gcd(_, _)
Gcd(a, b) == IF b = 0 THEN a ELSE Gcd(b, a % b)

\* the float64 quotient a / b (b > 0), as a reduced fraction
Quot(a, b) == LET g == Gcd(a, b) IN <<a \div g, b \div g>>

RECURSIVE SumSeq(_)
SumSeq(s) == IF s = <<>> THEN 0 ELSE Head(s) + SumSeq(Tail(s))

\* mutant of MinSeq: the first score is taken for the least
MinSeq_First(s) == s[1]

MinSeq(s) == CHOOSE x \in Range(s) : \A y \in Range(s) : x <= y
MaxSeq(s) == CHOOSE x \in Range(s) : \A y \in Range(s) : x >= y

\* m[key] for a Go map: the zero value when the key is absent
MapGet(m, key, zero) == IF key \in DOMAIN m THEN m[key] ELSE zero
MapPut(m, key, val) == [x \in DOMAIN m \cup {key} |-> IF x = key THEN val ELSE m[x]]

FieldType(v) ==
    CASE v.t = "number" -> "number"
      [] v.t = "bool" -> "bool"
      [] OTHER -> "string"

\* mutant of AppendTo: the list is replaced by the new value
AppendTo_Overwrite(m, key, val) == MapPut(m, key, <<val>>)

\* m[key] = append(m[key], val)
AppendTo(m, key, val) == MapPut(m, key, Append(MapGet(m, key, <<>>), val))

\* the maps CalculateStats declares before its pass over the records
EmptyAcc == [configSet |-> {}, customScoreSet |-> {}, customFieldSet |-> {},
             configScores |-> <<>>, configTimes |-> <<>>,
             configCustomScores |-> <<>>, configCustomFields |-> <<>>,
             totalScore |-> 0, CustomFieldTypes |-> <<>>]

\* mutant of AccumulateAt: the type of a custom field is that of its latest
\* value
AccumulateAt_LastType(acc, result, configKey) ==
    LET custom == result.Scores.Custom
        cf == result.CustomFields
        oldScores == MapGet(acc.configCustomScores, configKey, <<>>)
        newScores == [st \in DOMAIN oldScores \cup DOMAIN custom |->
                         IF st \in DOMAIN custom
                         THEN Append(MapGet(oldScores, st, <<>>), custom[st])
                         ELSE oldScores[st]]
        oldFields == MapGet(acc.configCustomFields, configKey, <<>>)
        newFields == [fn \in DOMAIN oldFields \cup DOMAIN cf |->
                         IF fn \in DOMAIN oldFields THEN oldFields[fn]
                         ELSE FormatV(cf[fn])]
        newTypes == [fn \in DOMAIN acc.CustomFieldTypes \cup DOMAIN cf |->
                        IF fn \in DOMAIN cf
                        THEN FieldType(cf[fn]) ELSE acc.CustomFieldTypes[fn]]
    IN [configSet |-> acc.configSet \cup {configKey},
        customScoreSet |-> acc.customScoreSet \cup DOMAIN custom,
        customFieldSet |-> acc.customFieldSet \cup DOMAIN cf,
        configScores |-> AppendTo(acc.configScores, configKey, result.Scores.Combined),
        configTimes |-> AppendTo(acc.configTimes, configKey, result.ResponseTimeMS),
        configCustomScores |-> MapPut(acc.configCustomScores, configKey, newScores),
        configCustomFields |-> MapPut(acc.configCustomFields, configKey, newFields),
        totalScore |-> acc.totalScore + result.Scores.Combined,
        CustomFieldTypes |-> newTypes]

\* the body of `for _, result := range results`, configKey computed
AccumulateAt(acc, result, configKey) ==
    LET custom == result.Scores.Custom
        cf == result.CustomFields
        oldScores == MapGet(acc.configCustomScores, configKey, <<>>)
        newScores == [st \in DOMAIN oldScores \cup DOMAIN custom |->
                         IF st \in DOMAIN custom
                         THEN Append(MapGet(oldScores, st, <<>>), custom[st])
                         ELSE oldScores[st]]
        oldFields == MapGet(acc.configCustomFields, configKey, <<>>)
        newFields == [fn \in DOMAIN oldFields \cup DOMAIN cf |->
                         IF fn \in DOMAIN oldFields THEN oldFields[fn]
                         ELSE FormatV(cf[fn])]
        newTypes == [fn \in DOMAIN acc.CustomFieldTypes \cup DOMAIN cf |->
                        IF fn \in DOMAIN acc.CustomFieldTypes
                        THEN acc.CustomFieldTypes[fn] ELSE FieldType(cf[fn])]
    IN [configSet |-> acc.configSet \cup {configKey},
        customScoreSet |-> acc.customScoreSet \cup DOMAIN custom,
        customFieldSet |-> acc.customFieldSet \cup DOMAIN cf,
        configScores |-> AppendTo(acc.configScores, configKey, result.Scores.Combined),
        configTimes |-> AppendTo(acc.configTimes, configKey, result.ResponseTimeMS),
        configCustomScores |-> MapPut(acc.configCustomScores, configKey, newScores),
        configCustomFields |-> MapPut(acc.configCustomFields, configKey, newFields),
        totalScore |-> acc.totalScore + result.Scores.Combined,
        CustomFieldTypes |-> newTypes]

\* one iteration of `for _, result := range results`
AccumulateResult(acc, result, k) ==
    AccumulateAt(acc, result, buildConfigKey(result, k))

RECURSIVE Accumulate(_, _, _)
Accumulate(acc, results, k) ==
    IF results = <<>> THEN acc
    ELSE Accumulate(AccumulateResult(acc, Head(results), k), Tail(results), k)

\* the config key up to its first '|'
RECURSIVE BeforePipe(_)
BeforePipe(key) ==
    IF key = <<>> \/ Head(key) = 124 THEN <<>>
    ELSE <<Head(key)>> \o BeforePipe(Tail(key))

\* mutant of BuildModelStat: a custom score is averaged over every record of
\* the group
BuildModelStat_ByTestCount(acc, configKey) ==
    LET scores == acc.configScores[configKey]
        times == acc.configTimes[configKey]
        cs == acc.configCustomScores[configKey]
    IN [Model |-> configKey,
        ActualModelName |-> BeforePipe(configKey),
        TestCount |-> Len(scores),
        AvgScore |-> Quot(SumSeq(scores), Len(scores)),
        MinScore |-> MinSeq(scores),
        MaxScore |-> MaxSeq(scores),
        CustomScores |-> [st \in DOMAIN cs |-> Quot(SumSeq(cs[st]), Len(scores))],
        AvgTimeMS |-> Quot(SumSeq(times), Len(times)),
        CustomFields |-> acc.configCustomFields[configKey]]

\* the ModelStat built for one config key in the second loop
BuildModelStat(acc, configKey) ==
    LET scores == acc.configScores[configKey]
        times == acc.configTimes[configKey]
        cs == acc.configCustomScores[configKey]
    IN [Model |-> configKey,
        ActualModelName |-> BeforePipe(configKey),
        TestCount |-> Len(scores),
        AvgScore |-> Quot(SumSeq(scores), Len(scores)),
        MinScore |-> MinSeq(scores),
        MaxScore |-> MaxSeq(scores),
        CustomScores |-> [st \in DOMAIN cs |-> Quot(SumSeq(cs[st]), Len(cs[st]))],
        AvgTimeMS |-> Quot(SumSeq(times), Len(times)),
        CustomFields |-> acc.configCustomFields[configKey]]

\* the sum of the per-group averages, as a fraction
RECURSIVE SumOfMeans(_, _)
SumOfMeans(acc, keys) ==
    IF keys = {} THEN <<0, 1>>
    ELSE LET ck == CHOOSE x \in keys : TRUE
             m == Quot(SumSeq(acc.configScores[ck]), Len(acc.configScores[ck]))
             rest == SumOfMeans(acc, keys \ {ck})
         IN Quot(m[1] * rest[2] + rest[1] * m[2], m[2] * rest[2])

\* mutant of FinishStats: AvgScore is the mean of the per-group averages
FinishStats_MeanOfMeans(acc, results, k) ==
    [TotalTests |-> Len(results),
     AvgScore |-> Quot(SumOfMeans(acc, acc.configSet)[1],
                       SumOfMeans(acc, acc.configSet)[2] * Cardinality(acc.configSet)),
     Models |-> SortStrings(MapRange(acc.configSet, k)),
     Results |-> results,
     ModelStats |-> [ck \in {c \in acc.configSet : Len(acc.configScores[c]) # 0}
                        |-> BuildModelStat(acc, ck)],
     CustomScores |-> SortStrings(MapRange(acc.customScoreSet, k)),
     CustomFieldNames |-> SortStrings(MapRange(acc.customFieldSet, k)),
     CustomFieldTypes |-> acc.CustomFieldTypes]

\* CalculateStats after its pass over the records: the sorted lists and the
\* per-config statistics
FinishStats(acc, results, k) ==
    [TotalTests |-> Len(results),
     AvgScore |-> Quot(acc.totalScore, Len(results)),
     Models |-> SortStrings(MapRange(acc.configSet, k)),
     Results |-> results,
     ModelStats |-> [ck \in {c \in acc.configSet : Len(acc.configScores[c]) # 0}
                        |-> BuildModelStat(acc, ck)],
     CustomScores |-> SortStrings(MapRange(acc.customScoreSet, k)),
     CustomFieldNames |-> SortStrings(MapRange(acc.customFieldSet, k)),
     CustomFieldTypes |-> acc.CustomFieldTypes]

\* mutant of CalculateStats: without the early return the average of no
\* record is 0.0 / 0, which float64 evaluates to NaN
CalculateStats_NoEarlyReturn(results, k) ==
    IF Len(results) = 0
    THEN [TotalTests |-> 0, AvgScore |-> <<0, 0>>, Models |-> <<>>,
          Results |-> results, ModelStats |-> <<>>, CustomScores |-> <<>>,
          CustomFieldNames |-> <<>>, CustomFieldTypes |-> <<>>]
    ELSE FinishStats(Accumulate(EmptyAcc, results, k), results, k)

CalculateStats(results, k) ==
    IF Len(results) = 0
    THEN [TotalTests |-> 0, AvgScore |-> <<0, 1>>, Models |-> <<>>,
          Results |-> results, ModelStats |-> <<>>, CustomScores |-> <<>>,
          CustomFieldNames |-> <<>>, CustomFieldTypes |-> <<>>]
    ELSE FinishStats(Accumulate(EmptyAcc, results, k), results, k)

----------------------------------------------------------------------------
(* Inputs of the bounded runs *)

sM == <<109>>   \* "m"
sN == <<110>>   \* "n"
sT == <<116>>   \* "t"
sC == <<99>>    \* "c"
sA == <<97>>    \* "a"
s1 == <<49>>    \* "1"
s2 == <<50>>    \* "2"
s3 == <<51>>    \* "3"
s6 == <<54>>    \* "6"
sR == <<114>>   \* "r"

\* {"timestamp":"1","model":"m","scores":{"combined":8}}
LineA == ObjLine(<<Fld(kTimestamp, JStr(s1)), Fld(kModel, JStr(sM)),
                   Fld(kScores, JObj(<<Fld(kCombined, JNum(8))>>))>>)
\* {"timestamp":"2","model":"m","scores":{"combined":6,"a":4},"t":5,"metadata":{"run_id":"r"}}
LineB == ObjLine(<<Fld(kTimestamp, JStr(s2)), Fld(kModel, JStr(sM)),
                   Fld(kScores, JObj(<<Fld(kCombined, JNum(6)), Fld(sA, JNum(4))>>)),
                   Fld(sT, JNum(5)),
                   Fld(kMetadata, JObj(<<Fld(kRunID, JStr(sR))>>))>>)
\* {"timestamp":"3","model":"m","scores":{"a":4}}
LineNoCombined == ObjLine(<<Fld(kTimestamp, JStr(s3)), Fld(kModel, JStr(sM)),
                            Fld(kScores, JObj(<<Fld(sA, JNum(4))>>))>>)
\* {"timestamp":"3","model":"m","scores":{"combined":"6"}}
LineTextCombined == ObjLine(<<Fld(kTimestamp, JStr(s3)), Fld(kModel, JStr(sM)),
                              Fld(kScores, JObj(<<Fld(kCombined, JStr(s6))>>))>>)
\* {"timestamp":"3","scores":{"combined":4}}
LineNoModel == ObjLine(<<Fld(kTimestamp, JStr(s3)),
                         Fld(kScores, JObj(<<Fld(kCombined, JNum(4))>>))>>)
\* {"timestamp":"3","model":5,"scores":{"combined":4}}
LineBadType == ObjLine(<<Fld(kTimestamp, JStr(s3)), Fld(kModel, JNum(5)),
                         Fld(kScores, JObj(<<Fld(kCombined, JNum(4))>>))>>)

LinePool == {LineA, LineB, LineNoCombined, LineTextCombined, LineNoModel,
             LineBadType, BlankLine, GarbageLine, ScalarLine, NullLine,
             LongLine(LineA), LongLine(GarbageLine)}

SeqsUpTo(S, n) == UNION {[1..m -> S] : m \in 0..n}

\* the values of the variables a run does not use
IdleData == [TotalTests |-> 0, AvgScore |-> <<0, 1>>, Models |-> <<>>,
             Results |-> 1, ModelStats |-> <<>>, CustomScores |-> <<>>,
             CustomFieldNames |-> <<>>, CustomFieldTypes |-> <<>>]
IdleReload == [called |-> FALSE, ret |-> "nil"]
IdleResponse == [handler |-> "none", status |-> 0]
NoOutput == [done |-> FALSE]

\* no page is open
NoPage == [loaded |-> FALSE]

serverVars == <<files, evalData, heap, procs, lastReload, response, now, page>>

ServerIdle ==
    /\ files = <<>>
    /\ evalData = IdleData
    /\ heap = << <<>> >>
    /\ procs = <<>>
    /\ lastReload = IdleReload
    /\ response = IdleResponse
    /\ now = 0
    /\ page = NoPage

----------------------------------------------------------------------------
(* Run 1: one record store is parsed and its records are aggregated *)

InitParse ==
    /\ ServerIdle
    /\ input \in [readable : BOOLEAN, lines : SeqsUpTo(LinePool, MaxLines)]
    /\ output = NoOutput

\* results, err := ParseJSONL(filename)
RunParse ==
    /\ ~output.done
    /\ output' = [done |-> TRUE, stage |-> "parsed", parsed |-> ParseJSONL(input)]
    /\ UNCHANGED <<input, serverVars>>

\* CalculateStats(results) on the records of a successful parse
RunStats ==
    /\ output.done /\ output.stage = "parsed" /\ output.parsed.err = "nil"
    /\ \E k \in 0..(MapOrders - 1) :
          output' = [output EXCEPT !.stage = "stats"] @@
                    [data |-> CalculateStats(output.parsed.results, k)]
    /\ UNCHANGED <<input, serverVars>>

NextParse == RunParse \/ RunStats

SpecParse == InitParse /\ [][NextParse]_vars

\* the line carries a "scores" object with a numeric "combined"
HasPrimaryMetric(line) ==
    \E i \in DOMAIN line.fields :
        /\ line.fields[i].name = kScores
        /\ line.fields[i].val.t = "object"
        /\ \E j \in DOMAIN line.fields[i].val.o :
              /\ line.fields[i].val.o[j].name = kCombined
              /\ line.fields[i].val.o[j].val.t = "number"

\* the line carries a "model" text
HasModel(line) ==
    \E i \in DOMAIN line.fields :
        line.fields[i].name = kModel /\ line.fields[i].val.t = "string"

\* the line is syntactically valid JSON
ValidJSON(line) == line.kind \in {"scalar", "null", "object"}

\* the records of a list of lines, one per line
RecordsOf(lines) == [i \in DOMAIN lines |-> UnmarshalEvalResult(lines[i]).er]

\* C6 (as stated): a line that decodes but lacks a numeric scores.combined, or
\* lacks a model, is dropped: for a store of JSON object lines, the records
\* counted in TotalTests are exactly the decodable lines that carry both.
C6_IncompleteDropped ==
    (/\ output.done /\ output.stage = "stats"
     /\ \A i \in DOMAIN input.lines : input.lines[i].kind = "object") =>
        output.data.TotalTests =
            Cardinality({i \in DOMAIN input.lines :
                            /\ ~UnmarshalEvalResult(input.lines[i]).err
                            /\ HasPrimaryMetric(input.lines[i])
                            /\ HasModel(input.lines[i])})

RECURSIVE SumTestCount(_, _)
SumTestCount(stats, keys) ==
    IF keys = {} THEN 0
    ELSE LET ck == CHOOSE x \in keys : TRUE
         IN stats[ck].TestCount + SumTestCount(stats, keys \ {ck})

\* C7: after CalculateStats the TestCount of the groups add up to TotalTests,
\* which is the number of records in Results; every record's config key is a
\* group, and a group counts exactly the records that have its key.
C7_CountsAddUp ==
    (output.done /\ output.stage = "stats") =>
        LET d == output.data
        IN /\ SumTestCount(d.ModelStats, DOMAIN d.ModelStats) = d.TotalTests
           /\ d.TotalTests = Len(d.Results)
           /\ d.Results = output.parsed.results
           /\ \A i \in DOMAIN d.Results :
                 buildConfigKey(d.Results[i], 0) \in DOMAIN d.ModelStats
           /\ \A ck \in DOMAIN d.ModelStats :
                 d.ModelStats[ck].TestCount =
                     Cardinality({i \in DOMAIN d.Results :
                                     buildConfigKey(d.Results[i], 0) = ck})

\* C7 witness: two records of one group and the aggregation done
C7_Witness ==
    /\ output.done /\ output.stage = "stats"
    /\ input.lines = <<LineA, LineA>>
    /\ output.data.TotalTests = 2
    /\ DOMAIN output.data.ModelStats = {sM}

\* C8 (as stated): of the n lines of a readable file, exactly the lines that
\* are valid JSON are returned as records, in file order, and no error is
\* returned.
C8_ValidLinesReturned ==
    (output.done /\ input.readable) =>
        /\ output.parsed.err = "nil"
        /\ output.parsed.results = RecordsOf(SelectSeq(input.lines, ValidJSON))

GoodLine(line) == ~line.long /\ ~UnmarshalEvalResult(line).err

\* C9 (as stated): a blank, malformed or over-long line is skipped on its own:
\* every other line of the file that decodes is still returned.
C9_BadLineNotFatal ==
    (output.done /\ input.readable) =>
        output.parsed.results = RecordsOf(SelectSeq(input.lines, GoodLine))

----------------------------------------------------------------------------
(* Run 2: the config keys of two decoded lines *)

\* number of custom fields on a line
MaxFields == 2

KeyFieldPool == {Fld(sC, JNum(5)), Fld(sC, JStr(s6)), Fld(sT, JNum(5)), Fld(sT, JStr(s6))}

KeyLine(model, fs) ==
    ObjLine(<<Fld(kModel, JStr(model)),
              Fld(kScores, JObj(<<Fld(kCombined, JNum(8))>>))>> \o fs)

KeyLines == {KeyLine(model, fs) : model \in {sM, sN}, fs \in SeqsUpTo(KeyFieldPool, MaxFields)}

InitKey ==
    /\ ServerIdle
    /\ input \in [l1 : KeyLines, l2 : KeyLines]
    /\ output = NoOutput

\* both lines are decoded and buildConfigKey runs on each record, each run
\* with its own map enumeration order
RunKeys ==
    /\ ~output.done
    /\ \E k1, k2 \in 0..(MapOrders - 1) :
          LET r1 == UnmarshalEvalResult(input.l1).er
              r2 == UnmarshalEvalResult(input.l2).er
          IN output' = [done |-> TRUE, r1 |-> r1, r2 |-> r2,
                        key1 |-> buildConfigKey(r1, k1),
                        key2 |-> buildConfigKey(r2, k2)]
    /\ UNCHANGED <<input, serverVars>>

NextKey == RunKeys

SpecKey == InitKey /\ [][NextKey]_vars

\* C10: two records with the same model and the same (name, value) custom
\* fields have the same config key, whatever the order of the fields on the
\* line and whatever the order in which the map is enumerated.
C10_KeyOrderIndependent ==
    (output.done /\ output.r1.Model = output.r2.Model
                 /\ output.r1.CustomFields = output.r2.CustomFields) =>
        output.key1 = output.key2

\* C10 witness: the same two fields written in opposite orders on the two lines
C10_Witness ==
    /\ output.done
    /\ input.l1 = KeyLine(sM, <<Fld(sC, JNum(5)), Fld(sT, JStr(s6))>>)
    /\ input.l2 = KeyLine(sM, <<Fld(sT, JStr(s6)), Fld(sC, JNum(5))>>)
    /\ output.key1 = output.key2
    /\ Len(output.key1) = 9

----------------------------------------------------------------------------
(* Run 3: two decoded lines are keyed and then aggregated together *)

\* "m|t=5": a model name that holds the separators of the key
sMPipe == <<109, 124, 116, 61, 53>>
s5 == <<53>>    \* "5"

GroupFieldPool == {Fld(sT, JNum(5)), Fld(sT, JStr(s5)),
                   Fld(kQuestionID, JStr(s1)), Fld(kQuestionID, JStr(s2)),
                   Fld(kTestRunDate, JStr(s1))}

GroupLines(models) ==
    {KeyLine(model, fs) : model \in models, fs \in SeqsUpTo(GroupFieldPool, MaxFields)}

InitGroup ==
    /\ ServerIdle
    /\ input \in [l1 : GroupLines({sM}), l2 : GroupLines({sM, sMPipe})]
    /\ output = NoOutput

\* CalculateStats on the two records, in the order of the lines
RunGroup ==
    /\ output.done /\ "data" \notin DOMAIN output
    /\ \E k \in 0..(MapOrders - 1) :
          output' = output @@ [data |-> CalculateStats(<<output.r1, output.r2>>, k)]
    /\ UNCHANGED <<input, serverVars>>

NextGroup == RunKeys \/ RunGroup

SpecGroup == InitGroup /\ [][NextGroup]_vars

Grouped == output.done /\ "data" \in DOMAIN output

\* the custom fields of a record that are configuration: every field but
\* question_id and test_run_date
ConfigFields(result) ==
    [nm \in DOMAIN result.CustomFields \ {kQuestionID, kTestRunDate}
        |-> result.CustomFields[nm]]

\* the text of a value as it is displayed: a number by its digits, a text as it is
ValueText(v) == IF v.t = "number" THEN Digits(v.n) ELSE v.s

\* the two records differ in configuration
ConfigDiffers(a, b) ==
    \/ a.Model # b.Model
    \/ DOMAIN ConfigFields(a) # DOMAIN ConfigFields(b)
    \/ \E nm \in DOMAIN ConfigFields(a) \cap DOMAIN ConfigFields(b) :
          ValueText(a.CustomFields[nm]) # ValueText(b.CustomFields[nm])

\* the two records are aggregated into one group
OneGroup ==
    /\ output.key1 = output.key2
    /\ DOMAIN output.data.ModelStats = {output.key1}
    /\ output.data.ModelStats[output.key1].TestCount = 2

\* C11 (as stated): two records that differ in model, in the names of their
\* configuration fields or in the text of a shared configuration field get
\* different config keys and are aggregated into two groups.
C11_DistinctConfigsDistinctGroups ==
    (Grouped /\ ConfigDiffers(output.r1, output.r2)) =>
        /\ output.key1 # output.key2
        /\ Cardinality(DOMAIN output.data.ModelStats) = 2

\* the record without one of its custom fields
WithoutField(result, nm) ==
    [result EXCEPT !.CustomFields = [x \in DOMAIN result.CustomFields \ {nm}
                                        |-> result.CustomFields[x]]]

\* C12: two records with the same model that differ only in question_id and
\* test_run_date (value or presence) have the same config key and form one
\* group; every other custom field of a record is part of its key.
C12_ExcludedFieldsIgnored ==
    Grouped =>
        /\ (/\ output.r1.Model = output.r2.Model
            /\ ConfigFields(output.r1) = ConfigFields(output.r2)) => OneGroup
        /\ \A nm \in DOMAIN ConfigFields(output.r2) :
              buildConfigKey(WithoutField(output.r2, nm), 0) # output.key2

\* C12 witness: one line carries question_id, the other test_run_date, and
\* both the configuration field t
C12_Witness ==
    /\ Grouped
    /\ input.l1 = KeyLine(sM, <<Fld(kQuestionID, JStr(s1)), Fld(sT, JNum(5))>>)
    /\ input.l2 = KeyLine(sM, <<Fld(kTestRunDate, JStr(s1)), Fld(sT, JNum(5))>>)
    /\ output.key1 = sMPipe
    /\ OneGroup

\* the two values are equal, or one is a number and the other the text of
\* its digits
SameUpToType(v, w) ==
    \/ v = w
    \/ v.t = "number" /\ w.t = "string" /\ w.s = Digits(v.n)
    \/ w.t = "number" /\ v.t = "string" /\ v.s = Digits(w.n)

\* C13: two records with the same model and the same configuration field
\* names, whose values agree up to their JSON type (the number 5 and the
\* text "5"), have the same config key and form one group.
C13_ValueTypeIgnored ==
    (/\ Grouped
     /\ output.r1.Model = output.r2.Model
     /\ DOMAIN ConfigFields(output.r1) = DOMAIN ConfigFields(output.r2)
     /\ \A nm \in DOMAIN ConfigFields(output.r1) :
           SameUpToType(output.r1.CustomFields[nm], output.r2.CustomFields[nm]))
        => OneGroup

\* C13 witness: t is the number 5 on one line and the text "5" on the other
C13_Witness ==
    /\ Grouped
    /\ input.l1 = KeyLine(sM, <<Fld(sT, JNum(5))>>)
    /\ input.l2 = KeyLine(sM, <<Fld(sT, JStr(s5))>>)
    /\ output.key1 = sMPipe
    /\ OneGroup

\* C28: for every group, ActualModelName equals the model field of every
\* record aggregated into the group, and the group's Model field equals its
\* config key.
C28_ActualModelNameIsModel ==
    Grouped =>
        \A K \in DOMAIN output.data.ModelStats :
            /\ output.data.ModelStats[K].Model = K
            /\ output.key1 = K => output.data.ModelStats[K].ActualModelName = output.r1.Model
            /\ output.key2 = K => output.data.ModelStats[K].ActualModelName = output.r2.Model

----------------------------------------------------------------------------
(* The refresh controller *)

\* mutant of LoadFiles: a store that fails ends the loop
RECURSIVE LoadFiles_Break(_, _)
LoadFiles_Break(fs, allResults) ==
    IF fs = <<>> THEN allResults
    ELSE LET p == ParseJSONL(Head(fs))
         IN IF p.err # "nil" THEN allResults
            ELSE LoadFiles_Break(Tail(fs), allResults \o p.results)

\* the loop of reloadData over evalFilenames
RECURSIVE LoadFiles(_, _)
LoadFiles(fs, allResults) ==
    IF fs = <<>> THEN allResults
    ELSE LET p == ParseJSONL(Head(fs))
         IN LoadFiles(Tail(fs),
                      IF p.err # "nil" THEN allResults ELSE allResults \o p.results)

\* the assignment to evalData, allResults collected: both branches call
\* CalculateStats, on the empty list when nothing was decoded
StatsOfLoaded(allResults, k) ==
    CalculateStats(IF Len(allResults) = 0 THEN <<>> ELSE allResults, k)

\* mutant of reloadData: with no record decoded, evalData is left as it is
reloadData_KeepStale(fs, k) ==
    LET allResults == LoadFiles(fs, <<>>)
    IN [data |-> IF Len(allResults) = 0
                 THEN [evalData EXCEPT !.Results = heap[evalData.Results]]
                 ELSE CalculateStats(allResults, k),
        ret |-> "nil",
        outcomes |-> [i \in DOMAIN fs |-> ParseJSONL(fs[i]).err]]

\* reloadData: the DashboardData it assigns to evalData and the error it returns
reloadData(fs, k) ==
    [data |-> StatsOfLoaded(LoadFiles(fs, <<>>), k),
     ret |-> "nil",
     outcomes |-> [i \in DOMAIN fs |-> ParseJSONL(fs[i]).err]]

----------------------------------------------------------------------------
(* Run 4: a list of records is aggregated, aggregated again, and aggregated *)
(* in another order                                                         *)

\* number of records in the list
MaxRecords == 3

s4 == <<52>>    \* "4"
sX == <<120>>   \* "x"

\* {"timestamp":"3","model":"m","scores":{"combined":4,"a":2}}
LineC == ObjLine(<<Fld(kTimestamp, JStr(s3)), Fld(kModel, JStr(sM)),
                   Fld(kScores, JObj(<<Fld(kCombined, JNum(4)), Fld(sA, JNum(2))>>))>>)
\* {"timestamp":"4","model":"m","scores":{"combined":6,"a":"x"},"question_id":"1"}
LineD == ObjLine(<<Fld(kTimestamp, JStr(s4)), Fld(kModel, JStr(sM)),
                   Fld(kScores, JObj(<<Fld(kCombined, JNum(6)), Fld(sA, JStr(sX))>>)),
                   Fld(kQuestionID, JStr(s1))>>)
\* {"timestamp":"5","model":"m","scores":{"combined":2,"c":6},"question_id":2}
LineE == ObjLine(<<Fld(kTimestamp, JStr(s5)), Fld(kModel, JStr(sM)),
                   Fld(kScores, JObj(<<Fld(kCombined, JNum(2)), Fld(sC, JNum(6))>>)),
                   Fld(kQuestionID, JNum(2))>>)

AggPool == {LineA, LineB, LineC, LineD, LineE}

\* a readable store holding the lines
StoreOf(lines) == [readable |-> TRUE, lines |-> lines]

InitAgg ==
    /\ ServerIdle
    /\ input \in [lines : SeqsUpTo(AggPool, MaxRecords)]
    /\ output = NoOutput

\* CalculateStats(results), and a refresh over a store that holds the lines
RunAgg ==
    /\ ~output.done
    /\ \E k \in 0..(MapOrders - 1) :
          output' = [done |-> TRUE, stage |-> "one", k1 |-> k,
                     d1 |-> CalculateStats(RecordsOf(input.lines), k),
                     r1 |-> reloadData(<<StoreOf(input.lines)>>, k).data]
    /\ UNCHANGED <<input, serverVars>>

\* the same calls a second time
RunAgain ==
    /\ output.done /\ output.stage = "one"
    /\ \E k \in 0..(MapOrders - 1) :
          output' = [output EXCEPT !.stage = "again"] @@
                    [k2 |-> k,
                     d2 |-> CalculateStats(RecordsOf(input.lines), k),
                     r2 |-> reloadData(<<StoreOf(input.lines)>>, k).data]
    /\ UNCHANGED <<input, serverVars>>

\* CalculateStats on the same records in another order
RunPermuted ==
    /\ output.done /\ output.stage = "one"
    /\ \E f \in Permutations(DOMAIN input.lines), k \in 0..(MapOrders - 1) :
          output' = [output EXCEPT !.stage = "permuted"] @@
                    [perm |-> f,
                     dp |-> CalculateStats(
                                RecordsOf([i \in DOMAIN input.lines |-> input.lines[f[i]]]), k)]
    /\ UNCHANGED <<input, serverVars>>

NextAgg == RunAgg \/ RunAgain \/ RunPermuted

SpecAgg == InitAgg /\ [][NextAgg]_vars

Aggregated == output.done /\ output.stage = "one"

\* the "combined" number written on a line, 0 when there is none
CombinedOnLine(line) ==
    LET sc == {i \in DOMAIN line.fields : line.fields[i].name = kScores}
        co(o) == {j \in DOMAIN o : o[j].name = kCombined /\ o[j].val.t = "number"}
    IN IF sc = {} THEN 0
       ELSE LET o == line.fields[CHOOSE i \in sc : TRUE].val.o
            IN IF co(o) = {} THEN 0 ELSE o[CHOOSE j \in co(o) : TRUE].val.n

\* the sum of the numbers of a list at the chosen positions
RECURSIVE TotalAt(_, _)
TotalAt(vals, idx) ==
    IF idx = {} THEN 0
    ELSE LET i == CHOOSE x \in idx : TRUE
         IN vals[i] + TotalAt(vals, idx \ {i})

\* the sum of scores.combined over the lines at the chosen positions
CombinedAt(lines, idx) ==
    TotalAt([i \in DOMAIN lines |-> CombinedOnLine(lines[i])], idx)

\* the positions of the lines whose record has the config key
Members(lines, ck) ==
    {i \in DOMAIN lines : buildConfigKey(RecordsOf(lines)[i], 0) = ck}

\* the fraction is the quotient sum / count
IsQuotient(q, sum, count) == q[2] > 0 /\ q[1] * count = sum * q[2]

\* C14: for a non-empty record list AvgScore is the sum of scores.combined
\* over all records divided by the number of records, and the AvgScore of a
\* group is the sum over its members divided by its TestCount.
C14_GlobalMeanUnweighted ==
    (Aggregated /\ input.lines # <<>>) =>
        LET d == output.d1
        IN /\ IsQuotient(d.AvgScore,
                         CombinedAt(input.lines, DOMAIN input.lines),
                         Len(input.lines))
           /\ \A ck \in DOMAIN d.ModelStats :
                 /\ d.ModelStats[ck].TestCount = Cardinality(Members(input.lines, ck))
                 /\ IsQuotient(d.ModelStats[ck].AvgScore,
                               CombinedAt(input.lines, Members(input.lines, ck)),
                               d.ModelStats[ck].TestCount)

\* C14 witness: two records of one group and one of another: the mean over
\* the records is 22/3 (for 0.8, 0.8, 0.6) and the mean of the group means 7
C14_Witness ==
    /\ Aggregated
    /\ input.lines = <<LineA, LineA, LineB>>
    /\ output.d1.AvgScore = <<22, 3>>
    /\ output.d1.ModelStats[sM].AvgScore = <<8, 1>>
    /\ output.d1.ModelStats[sMPipe].AvgScore = <<6, 1>>

\* the positions in the "scores" object of a line where the score is given
\* as a number
ScoreAt(line, st) ==
    LET sc == {i \in DOMAIN line.fields : line.fields[i].name = kScores}
    IN IF sc = {} THEN {}
       ELSE LET o == line.fields[CHOOSE i \in sc : TRUE].val.o
            IN {j \in DOMAIN o : o[j].name = st /\ o[j].val.t = "number"}

\* the number given for the score on a line, 0 when there is none
ScoreOnLine(line, st) ==
    IF ScoreAt(line, st) = {} THEN 0
    ELSE LET sc == {i \in DOMAIN line.fields : line.fields[i].name = kScores}
         IN line.fields[CHOOSE i \in sc : TRUE].val.o[CHOOSE j \in ScoreAt(line, st) : TRUE].val.n

\* the members of a group that supply a number for the score
Suppliers(lines, ck, st) ==
    {i \in Members(lines, ck) : ScoreAt(lines[i], st) # {}}

\* C15: in each group the average of a custom score is the sum over the
\* members that supplied a number for it divided by the number of those
\* members; a score no member supplied has no entry.
C15_CustomScoreDivisor ==
    Aggregated =>
        \A ck \in DOMAIN output.d1.ModelStats, st \in {sA, sC} :
            LET avgs == output.d1.ModelStats[ck].CustomScores
                from == Suppliers(input.lines, ck, st)
            IN IF from = {} THEN st \notin DOMAIN avgs
               ELSE /\ st \in DOMAIN avgs
                    /\ IsQuotient(avgs[st],
                                  TotalAt([i \in DOMAIN input.lines |->
                                              ScoreOnLine(input.lines[i], st)], from),
                                  Cardinality(from))

\* C15 witness: a group of three records, one omitting the score a, one
\* supplying 0.2 and one supplying a text: the average of a is 0.2
C15_Witness ==
    /\ Aggregated
    /\ input.lines = <<LineA, LineC, LineD>>
    /\ output.d1.ModelStats[sM].TestCount = 3
    /\ output.d1.ModelStats[sM].CustomScores[sA] = <<2, 1>>
    /\ sC \notin DOMAIN output.d1.ModelStats[sM].CustomScores

\* C16: two runs of CalculateStats on the same records give equal results in
\* every field, whatever the map enumeration order of each run, and two
\* refreshes over an unchanged store give equal results.
C16_Deterministic ==
    (output.done /\ output.stage = "again") =>
        /\ output.d1 = output.d2
        /\ output.r1 = output.r2

\* C16 witness: two groups, two custom fields and two custom scores, and the
\* two runs enumerate their maps in different orders
C16_Witness ==
    /\ output.done /\ output.stage = "again"
    /\ input.lines = <<LineB, LineD, LineE>>
    /\ output.k1 # output.k2
    /\ output.d1.Models = <<sM, sMPipe>>
    /\ output.d1.CustomFieldNames = <<kQuestionID, sT>>
    /\ output.d1.CustomScores = <<sA, sC>>
    /\ output.d2.ModelStats[sM].CustomFields[kQuestionID] = s1

\* C17: for two record lists that are permutations of each other the Models
\* list, each group's TestCount, MinScore and MaxScore, and the CustomScores
\* and CustomFieldNames lists are equal.
C17_OrderIndependent ==
    (output.done /\ output.stage = "permuted") =>
        LET a == output.d1
            b == output.dp
        IN /\ a.Models = b.Models
           /\ a.CustomScores = b.CustomScores
           /\ a.CustomFieldNames = b.CustomFieldNames
           /\ DOMAIN a.ModelStats = DOMAIN b.ModelStats
           /\ \A ck \in DOMAIN a.ModelStats :
                 /\ a.ModelStats[ck].TestCount = b.ModelStats[ck].TestCount
                 /\ a.ModelStats[ck].MinScore = b.ModelStats[ck].MinScore
                 /\ a.ModelStats[ck].MaxScore = b.ModelStats[ck].MaxScore

\* C17 witness: three records of two groups aggregated in reverse order
C17_Witness ==
    /\ output.done /\ output.stage = "permuted"
    /\ input.lines = <<LineC, LineB, LineA>>
    /\ output.perm = <<3, 2, 1>>
    /\ output.dp.Models = <<sM, sMPipe>>
    /\ output.dp.ModelStats[sM].MinScore = 4
    /\ output.dp.ModelStats[sM].MaxScore = 8

\* the result holds no record, no group and no name
EmptyResult(d) ==
    /\ d.TotalTests = 0
    /\ d.AvgScore = <<0, 1>>
    /\ d.Models = <<>> /\ d.CustomScores = <<>> /\ d.CustomFieldNames = <<>>
    /\ DOMAIN d.ModelStats = {} /\ DOMAIN d.CustomFieldTypes = {}
    /\ d.Results = <<>>

\* C18: CalculateStats on the empty record list returns TotalTests = 0,
\* AvgScore = 0, empty Models, CustomScores and CustomFieldNames and empty
\* ModelStats and CustomFieldTypes; so does a refresh over an empty store.
C18_EmptyInputValid ==
    (Aggregated /\ input.lines = <<>>) =>
        (EmptyResult(output.d1) /\ EmptyResult(output.r1))

\* C18 witness: the empty list has been aggregated
C18_Witness ==
    /\ Aggregated
    /\ input.lines = <<>>
    /\ output.d1.TotalTests = 0
    /\ output.d1.AvgScore[2] = 1

\* the names of the members of a JSON object as written
NamesOf(fields) == {fields[i].name : i \in DOMAIN fields}

\* the value a name has in a JSON object as written: that of its last member
LastValue(fields, nm) ==
    LET at == {i \in DOMAIN fields : fields[i].name = nm}
    IN fields[CHOOSE i \in at : \A j \in at : j <= i].val

\* the first line of a list that carries the custom field f
FirstCarrying(lines, f) ==
    lines[CHOOSE i \in DOMAIN lines :
              /\ f \in NamesOf(lines[i].fields)
              /\ \A j \in 1..(i - 1) : f \notin NamesOf(lines[j].fields)]

\* "number", "bool" or "string": the kind of a JSON value
KindOf(v) == IF v.t \in {"number", "bool"} THEN v.t ELSE "string"

\* the types recorded in d are those of the first sightings in lines
FirstSightingTypes(d, lines) ==
    /\ DOMAIN d.CustomFieldTypes = Range(d.CustomFieldNames)
    /\ \A f \in Range(d.CustomFieldNames) :
          d.CustomFieldTypes[f] =
              KindOf(LastValue(FirstCarrying(lines, f).fields, f))

\* C23: CustomFieldTypes[f] is the type (number, bool or string) of the value
\* of f in the first record, in input order, that carries f; later records do
\* not change it; every name of CustomFieldNames has exactly one entry in
\* CustomFieldTypes.
C23_TypeOfFirstSighting ==
    /\ Aggregated => FirstSightingTypes(output.d1, input.lines)
    /\ (output.done /\ output.stage = "permuted") =>
          FirstSightingTypes(output.dp,
              [i \in DOMAIN input.lines |-> input.lines[output.perm[i]]])

\* question_id is the text "1" on the first line and the number 2 on the
\* second: its type is "string"
C23_Witness ==
    /\ Aggregated
    /\ input.lines = <<LineD, LineE>>
    /\ output.d1.CustomFieldTypes[kQuestionID] = "string"

\* a list of strings in strictly ascending order
Ascending(s) == \A i, j \in DOMAIN s : i < j => StrLess(s[i], s[j])

\* C24: Models is sorted ascending without duplicates and holds exactly the
\* keys of ModelStats; CustomScores is the sorted duplicate-free union of the
\* custom score names of all records; CustomFieldNames is the sorted
\* duplicate-free union of their custom field names, the names excluded from
\* the config key among them.
C24_SortedNameLists ==
    Aggregated =>
        LET d == output.d1
            recs == RecordsOf(input.lines)
        IN /\ Ascending(d.Models)
           /\ Range(d.Models) = DOMAIN d.ModelStats
           /\ Ascending(d.CustomScores)
           /\ Range(d.CustomScores) =
                 UNION {DOMAIN recs[i].Scores.Custom : i \in DOMAIN recs}
           /\ Ascending(d.CustomFieldNames)
           /\ Range(d.CustomFieldNames) =
                 UNION {NamesOf(input.lines[i].fields) \ knownFields : i \in DOMAIN recs}

\* two groups, two custom scores, and the custom fields question_id and t
C24_Witness ==
    /\ Aggregated
    /\ input.lines = <<LineE, LineB>>
    /\ output.d1.Models = <<sM, sMPipe>>
    /\ output.d1.CustomScores = <<sA, sC>>
    /\ output.d1.CustomFieldNames = <<kQuestionID, sT>>

----------------------------------------------------------------------------
(* Run 5: one line is decoded, aggregated, and written back as JSON *)

sModelCap == <<77,111,100,101,108>>   \* "Model"

\* the top-level fields of a line besides "scores": model "m", Model "n",
\* judge_model "n", metadata {}, t 5, t "6"
TopFieldPool == {Fld(kModel, JStr(sM)), Fld(sModelCap, JStr(sN)),
                 Fld(kJudgeModel, JStr(sN)), Fld(kMetadata, JObj(<<>>)),
                 Fld(sT, JNum(5)), Fld(sT, JStr(s6))}

\* the entries of a "scores" object: combined 8, a 4, a "x", c true, c null
ScoreEntryPool == {Fld(kCombined, JNum(8)), Fld(sA, JNum(4)), Fld(sA, JStr(sX)),
                   Fld(sC, JBool(TRUE)), Fld(sC, JNull)}

DecodeLines ==
    {ObjLine(sc \o top) :
        sc \in {<<>>} \cup {<<Fld(kScores, JObj(e))>> :
                                e \in SeqsUpTo(ScoreEntryPool, MaxFields)},
        top \in SeqsUpTo(TopFieldPool, MaxFields)}

InitDecode ==
    /\ ServerIdle
    /\ input \in [line : DecodeLines]
    /\ output = NoOutput

\* json.Unmarshal(line, &result)
RunDecode ==
    /\ ~output.done
    /\ output' = [done |-> TRUE, stage |-> "decoded", d |-> UnmarshalEvalResult(input.line)]
    /\ UNCHANGED <<input, serverVars>>

\* a refresh over a store that holds the line
RunAggregate ==
    /\ output.done /\ output.stage = "decoded"
    /\ \E k \in 0..(MapOrders - 1) :
          output' = [output EXCEPT !.stage = "aggregated"] @@
                    [data |-> reloadData(<<StoreOf(<<input.line>>)>>, k).data]
    /\ UNCHANGED <<input, serverVars>>

\* json.Marshal(result) of the decoded record, and the decoding of its output
RunEncode ==
    /\ output.done /\ output.stage = "decoded" /\ ~output.d.err
    /\ \E line2 \in {MarshalEvalResult(output.d.er)} :
          output' = [output EXCEPT !.stage = "encoded"] @@
                    [line2 |-> line2, d2 |-> UnmarshalEvalResult(line2)]
    /\ UNCHANGED <<input, serverVars>>

NextDecode == RunDecode \/ RunAggregate \/ RunEncode

SpecDecode == InitDecode /\ [][NextDecode]_vars

\* C21: decoding sorts the top-level fields of a line into disjoint sets: the
\* custom fields of the record are exactly the top-level names that are not
\* in knownFields, each with the value the line gives it, no name of
\* knownFields is a custom field, and there are as many custom fields as
\* there are top-level names outside knownFields.
C21_CustomFieldsPartition ==
    (output.done /\ ~output.d.err) =>
        LET fields == input.line.fields
            cf == output.d.er.CustomFields
            unknown == {nm \in NamesOf(fields) :
                           nm \notin {kTimestamp, kModel, kTestID, kQuestion, kResponse,
                                      kExpected, kScores, kResponseTimeMS, kMetadata,
                                      kJudgeModel, kJudgeFactual, kJudgeFaithful,
                                      kJudgeContext}}
        IN /\ DOMAIN cf = unknown
           /\ \A nm \in unknown : cf[nm] = LastValue(fields, nm)
           /\ DOMAIN cf \cap knownFields = {}
           /\ Cardinality(DOMAIN cf) = Cardinality(unknown)

\* a line with "Model" and "t" beside the known fields is decoded: both are
\* custom fields, and "Model" has also set the record's model
C21_Witness ==
    /\ output.done /\ output.stage = "decoded" /\ ~output.d.err
    /\ input.line.fields = <<Fld(kScores, JObj(<<Fld(kCombined, JNum(8))>>)),
                             Fld(sModelCap, JStr(sN)), Fld(sT, JNum(5))>>
    /\ DOMAIN output.d.er.CustomFields = {sModelCap, sT}
    /\ output.d.er.Model = sN

\* the members of the "scores" object of a line, <<>> when it has none
ScoresOnLine(line) ==
    LET at == {i \in DOMAIN line.fields : line.fields[i].name = kScores}
    IN IF at = {} THEN <<>> ELSE line.fields[CHOOSE i \in at : \A j \in at : j <= i].val.o

\* C22: inside the scores object every entry other than "combined" whose
\* value is a number becomes a custom score, an entry whose value is not a
\* number is dropped without a decode error, and the record is still decoded
\* and aggregated.
C22_NonNumericScoresDropped ==
    output.done =>
        LET entries == ScoresOnLine(input.line)
            custom == output.d.er.Scores.Custom
        IN /\ ~output.d.err
           /\ \A nm \in NamesOf(entries) \ {kCombined} :
                 IF LastValue(entries, nm).t = "number"
                 THEN nm \in DOMAIN custom /\ custom[nm] = LastValue(entries, nm).n
                 ELSE nm \notin DOMAIN custom
           /\ DOMAIN custom \subseteq NamesOf(entries) \ {kCombined}
           /\ output.stage = "aggregated" =>
                 /\ output.data.TotalTests = 1
                 /\ Range(output.data.CustomScores) = DOMAIN custom

\* a line whose scores are a 4 and c true is aggregated: one record, one
\* custom score
C22_Witness ==
    /\ output.done /\ output.stage = "aggregated"
    /\ ScoresOnLine(input.line) = <<Fld(sA, JNum(4)), Fld(sC, JBool(TRUE))>>
    /\ output.data.TotalTests = 1
    /\ output.data.CustomScores = <<sA>>

\* C30: writing a decoded record with MarshalJSON and decoding the output
\* gives back a record equal to the first in every field, the judge fields
\* and the custom fields included.
C30_MarshalRoundTrip ==
    (output.done /\ output.stage = "encoded") =>
        /\ ~output.d2.err
        /\ output.d2.er = output.d.er

----------------------------------------------------------------------------
(* The server, one request at a time *)

\* number of configured record stores
NumFiles == 2
\* number of lines appended to the stores in a run
MaxStored == 2

StorePool == {LineA, LineB, GarbageLine, LongLine(LineA)}

\* the query parameters tried: "" (absent), "m", "m|t=5"; "" and "r"; "", "1", "2"
ModelFilters == {<<>>, sM, <<109, 124, 116, 61, 53>>}
RunIDFilters == {<<>>, sR}
SinceValues == {<<>>, s1, s2}

StoredLines(fs) == SumSeq([i \in DOMAIN fs |-> Len(fs[i].lines)])

\* main(): the stores are loaded once before the server starts
Init ==
    /\ files = [i \in 1..NumFiles |-> [readable |-> TRUE, lines |-> <<>>]]
    /\ evalData = [CalculateStats(<<>>, 0) EXCEPT !.Results = 1]
    /\ heap = << <<>> >>
    /\ procs = <<>>
    /\ lastReload = IdleReload
    /\ response = IdleResponse
    /\ input = <<>>
    /\ output = NoOutput
    /\ now = 0
    /\ page = NoPage

\* an evaluation run appends a line to a store; the response of the last
\* request has been delivered
AppendLine ==
    /\ StoredLines(files) < MaxStored
    /\ \E i \in DOMAIN files, line \in StorePool :
          files' = [files EXCEPT ![i].lines = Append(@, line)]
    /\ response' = IdleResponse
    /\ UNCHANGED <<evalData, heap, procs, lastReload, input, output, now, page>>

\* a store becomes unreadable (removed, permissions) or readable again
SetReadable ==
    /\ \E i \in DOMAIN files :
          files' = [files EXCEPT ![i].readable = ~@]
    /\ response' = IdleResponse
    /\ UNCHANGED <<evalData, heap, procs, lastReload, input, output, now, page>>

\* the arrangements of a list that sort.Slice may leave: newest timestamp first
SortedByTimestampDesc(s) ==
    {p \in {[i \in DOMAIN s |-> s[f[i]]] : f \in Permutations(DOMAIN s)} :
        \A i \in 1..(Len(p) - 1) : ~StrLess(p[i].Timestamp, p[i+1].Timestamp)}

\* result.Metadata["run_id"].(string), "" when absent
RunIDOf(result) ==
    LET m == ToMap(result.Metadata.o)
    IN IF kRunID \in DOMAIN m /\ m[kRunID].t = "string" THEN m[kRunID].s ELSE <<>>

\* the call of reloadData at the head of a handler; no other handler is
\* running, so the array of the result it replaces is unreachable
ReloadAndPublish(r) ==
    /\ evalData' = [r.data EXCEPT !.Results = 1]
    /\ lastReload' = [called |-> TRUE, ret |-> r.ret]

\* a response carries the handler, the status, what the handler wrote, the
\* per-store outcomes reloadData logged while serving it and, for
\* /api/evals/since, the ts parameter of the request
dashboardHandler ==
    \E k \in 0..(MapOrders - 1) :
        \E r \in {reloadData(files, k)} :
           /\ ReloadAndPublish(r)
           /\ heap' = <<r.data.Results>>
           /\ response' = [handler |-> "dashboard", status |-> 200, log |-> r.outcomes,
                           TotalTests |-> r.data.TotalTests, Models |-> r.data.Models]
           /\ UNCHANGED <<files, procs, input, output, now, page>>

\* the records testsHandler keeps: every record without a filter
FilterTests(results, modelFilter, runIDFilter, k) ==
    IF modelFilter = <<>> /\ runIDFilter = <<>> THEN results
    ELSE SelectSeq(results,
            LAMBDA result :
                /\ (modelFilter = <<>> \/ buildConfigKey(result, k) = modelFilter)
                /\ (runIDFilter = <<>> \/ RunIDOf(result) = runIDFilter))

\* r.URL.Query().Get("model") for the request line /tests?model=<raw>: the
\* value ends at '&' (next parameter) or '#' (fragment) and '+' stands for a
\* space; the inputs hold no '%' escape
RECURSIVE QueryGet(_)
QueryGet(raw) ==
    IF raw = <<>> \/ Head(raw) \in {38, 35} THEN <<>>
    ELSE <<IF Head(raw) = 43 THEN 32 ELSE Head(raw)>> \o QueryGet(Tail(raw))

\* testsHandler after its reloadData returned r; the response also carries
\* the model parameter as written in the request line and the run_id filter
TestsResponse(r, k, rawModel, runIDFilter) ==
    \E modelFilter \in {QueryGet(rawModel)} :
      \E sorted \in SortedByTimestampDesc(
                        FilterTests(r.data.Results, modelFilter, runIDFilter, k)) :
         /\ ReloadAndPublish(r)
         \* without a filter filteredResults is evalData.Results itself
         /\ heap' = IF modelFilter = <<>> /\ runIDFilter = <<>>
                    THEN <<sorted>> ELSE <<r.data.Results>>
         /\ response' = [handler |-> "tests", status |-> 200, log |-> r.outcomes,
                         query |-> rawModel, run_id |-> runIDFilter,
                         results |-> sorted]
         /\ UNCHANGED <<files, procs, input, output, now, page>>

testsHandler ==
    \E k \in 0..(MapOrders - 1) :
      \E r \in {reloadData(files, k)} :
        \E rawModel \in ModelFilters, runIDFilter \in RunIDFilters :
           TestsResponse(r, k, rawModel, runIDFilter)

evalsAPIHandler ==
    \E k \in 0..(MapOrders - 1) :
      \E r \in {reloadData(files, k)} :
        \E modelFilter \in ModelFilters :
           /\ ReloadAndPublish(r)
           /\ heap' = <<r.data.Results>>
           /\ response' =
                 IF r.ret # "nil"
                 THEN [handler |-> "api", status |-> 500, log |-> r.outcomes]
                 ELSE [handler |-> "api", status |-> 200, log |-> r.outcomes,
                       TotalTests |-> r.data.TotalTests, Models |-> r.data.Models,
                       results |-> IF modelFilter = <<>> THEN r.data.Results
                                   ELSE SelectSeq(r.data.Results,
                                                  LAMBDA x : x.Model = modelFilter)]
           /\ UNCHANGED <<files, procs, input, output, now, page>>

\* mutant of evalsSinceHandler: a request without ts is refused before the
\* refresh
evalsSinceHandler_CheckFirst ==
    \E k \in 0..(MapOrders - 1) :
      \E r \in {reloadData(files, k)} :
        \E sinceTimestamp \in SinceValues :
           IF sinceTimestamp = <<>>
           THEN /\ response' = [handler |-> "since", status |-> 400, log |-> <<>>,
                                ts |-> sinceTimestamp]
                /\ UNCHANGED <<files, evalData, heap, procs, lastReload, input, output,
                               now, page>>
           ELSE /\ ReloadAndPublish(r)
                /\ heap' = <<r.data.Results>>
                /\ response' =
                      [handler |-> "since", status |-> 200, log |-> r.outcomes,
                       ts |-> sinceTimestamp,
                       results |-> SelectSeq(r.data.Results,
                                        LAMBDA x : StrLess(sinceTimestamp, x.Timestamp))]
                /\ UNCHANGED <<files, procs, input, output, now, page>>

evalsSinceHandler ==
    \E k \in 0..(MapOrders - 1) :
      \E r \in {reloadData(files, k)} :
        \E sinceTimestamp \in SinceValues :
           /\ ReloadAndPublish(r)
           /\ heap' = <<r.data.Results>>
           /\ response' =
                 IF r.ret # "nil"
                 THEN [handler |-> "since", status |-> 500, log |-> r.outcomes,
                       ts |-> sinceTimestamp]
                 ELSE IF sinceTimestamp = <<>>
                 THEN [handler |-> "since", status |-> 400, log |-> r.outcomes,
                       ts |-> sinceTimestamp]
                 ELSE [handler |-> "since", status |-> 200, log |-> r.outcomes,
                       ts |-> sinceTimestamp,
                       results |-> SelectSeq(r.data.Results,
                                        LAMBDA x : StrLess(sinceTimestamp, x.Timestamp))]
           /\ UNCHANGED <<files, procs, input, output, now, page>>

healthHandler ==
    /\ response' = [handler |-> "health", status |-> 200,
                    total_tests |-> evalData.TotalTests,
                    models |-> Len(evalData.Models)]
    /\ UNCHANGED <<files, evalData, heap, procs, lastReload, input, output, now, page>>


Next ==
    \/ AppendLine
    \/ SetReadable
    \/ dashboardHandler
    \/ testsHandler
    \/ evalsAPIHandler
    \/ evalsSinceHandler
    \/ healthHandler

Spec == Init /\ [][Next]_vars

\* a step of a handler that begins with reloadData: the stores are left alone
\* and the response is that of the handler
ReloadingRequest ==
    /\ files' = files
    /\ response'.handler \in {"dashboard", "tests", "api", "since"}

\* a refresh has just run over the stores as they are now: the response of a
\* handler that begins with reloadData is still pending delivery
Refreshed == response.handler \in {"dashboard", "tests", "api", "since"}

\* the published result is the empty result
EmptyPublished(data, arrays) ==
    /\ data.TotalTests = 0
    /\ data.AvgScore = <<0, 1>>
    /\ data.Models = <<>>
    /\ DOMAIN data.ModelStats = {}
    /\ arrays[data.Results] = <<>>

\* C3: a refresh that decodes no record from any store publishes the empty
\* result, whatever was published before, and returns no error.
C3_EmptyRefreshPublishesEmpty ==
    (Refreshed /\ \A i \in DOMAIN files : ParseJSONL(files[i]).results = <<>>)
        => (EmptyPublished(evalData, heap) /\ lastReload.called /\ lastReload.ret = "nil")

\* C3 witness: a refresh ran over a store holding only an undecodable line
\* and an empty store
C3_Witness ==
    /\ lastReload.called /\ lastReload.ret = "nil"
    /\ response.handler = "api" /\ response.status = 200
    /\ response.log = <<"nil", "nil">>
    /\ files[1].lines = <<GarbageLine>> /\ files[1].readable
    /\ files[2].lines = <<>> /\ files[2].readable
    /\ EmptyPublished(evalData, heap)

\* the store cannot be opened, or reading it fails
StoreFails(f) == ~f.readable \/ \E i \in DOMAIN f.lines : f.lines[i].long

\* C4 (as stated): a refresh during which the stores cannot be opened or
\* read leaves the published result as it was.
C4_UnreadableKeepsPrevious ==
    [][(ReloadingRequest /\ \A i \in DOMAIN files : StoreFails(files[i]))
          => (evalData' = evalData /\ heap'[evalData'.Results] = heap[evalData.Results])]_vars

\* C4 (amended): a refresh during which no store can be opened or read
\* publishes the empty result in place of the one published before, and
\* returns no error.
C4_UnreadablePublishesEmpty ==
    (Refreshed /\ \A i \in DOMAIN files : StoreFails(files[i]))
        => (EmptyPublished(evalData, heap) /\ lastReload.ret = "nil")

\* C4 witness: both stores hold a record, the first cannot be opened, reading
\* the second fails, and a refresh has run
C4_Witness ==
    /\ lastReload.called
    /\ response.handler = "dashboard"
    /\ response.log = <<"open", "read">>
    /\ ~files[1].readable /\ files[1].lines = <<LineA>>
    /\ files[2].readable /\ files[2].lines = <<LongLine(LineA)>>
    /\ evalData.TotalTests = 0

\* the records a store contributes to a refresh
Contribution(f) ==
    IF StoreFails(f) THEN <<>> ELSE RecordsOf(SelectSeq(f.lines, GoodLine))

RECURSIVE ConcatStores(_)
ConcatStores(fs) ==
    IF fs = <<>> THEN <<>> ELSE Contribution(Head(fs)) \o ConcatStores(Tail(fs))

\* C5: the records aggregated by a refresh are the records of the readable
\* stores, concatenated in configured order; a store that cannot be opened or
\* read contributes nothing and the stores after it are still read; a record
\* present in two stores is counted twice.
C5_StoresConcatenated ==
    Refreshed =>
        /\ evalData.TotalTests = Len(ConcatStores(files))
        /\ response.handler # "tests" => heap[evalData.Results] = ConcatStores(files)

\* C5 witness: the first store holds a record and cannot be opened, the
\* second holds the same record and is read
C5_Witness ==
    /\ lastReload.called
    /\ response.handler = "api"
    /\ response.log = <<"open", "nil">>
    /\ ~files[1].readable /\ files[1].lines = <<LineA>>
    /\ files[2].readable /\ files[2].lines = <<LineA>>
    /\ evalData.TotalTests = 1
    /\ heap[evalData.Results] = RecordsOf(<<LineA>>)

\* string a sorts strictly after string b, byte by byte
LexAfter(a, b) ==
    \/ Len(a) > Len(b) /\ SubSeq(a, 1, Len(b)) = b
    \/ \E i \in 1..Len(a) :
          /\ i <= Len(b)
          /\ SubSeq(a, 1, i - 1) = SubSeq(b, 1, i - 1)
          /\ a[i] > b[i]

\* C19: /api/evals/since?ts=T with non-empty T answers with exactly the
\* records of the stores as just reloaded whose Timestamp sorts strictly
\* after T, each once per occurrence; with an empty T it answers 400.
C19_SinceReturnsNewer ==
    response.handler = "since" =>
        IF response.ts = <<>> THEN response.status = 400
        ELSE /\ response.status = 200
             /\ response.results =
                    SelectSeq(ConcatStores(files),
                              LAMBDA x : LexAfter(x.Timestamp, response.ts))

\* C19 witness: the store holds records stamped "1" and "2" and the request
\* asks for the records after "1"
C19_Witness ==
    /\ response.handler = "since" /\ response.status = 200
    /\ response.ts = s1
    /\ files[1].readable /\ files[1].lines = <<LineA, LineB>>
    /\ files[2].lines = <<>>
    /\ response.results = RecordsOf(<<LineB>>)

\* C29: a call of reloadData ends, has assigned evalData, and returns nil
\* whatever the state of the files; so /api/evals and /api/evals/since never
\* answer 500 for a reload error, and /api/evals/since without ts answers 400
\* only once the refresh is published.
C29_ReloadNeverFails ==
    /\ lastReload.ret = "nil"
    /\ response.status # 500
    /\ Refreshed =>
          /\ lastReload.called
          /\ evalData.TotalTests = Len(ConcatStores(files))
          /\ heap[evalData.Results] \in SortedByTimestampDesc(ConcatStores(files))
                 \/ heap[evalData.Results] = ConcatStores(files)
    /\ (response.handler = "since" /\ response.ts = <<>>) => response.status = 400
    /\ response.status = 400 => (response.handler = "since" /\ response.ts = <<>>)

\* a record was appended, the other store cannot be opened, and a request to
\* /api/evals/since without ts is answered 400 with the record published
C29_Witness ==
    /\ response.handler = "since" /\ response.status = 400 /\ response.ts = <<>>
    /\ files[1].readable /\ files[1].lines = <<LineA>>
    /\ ~files[2].readable
    /\ evalData.TotalTests = 1
    /\ lastReload.called /\ lastReload.ret = "nil"

----------------------------------------------------------------------------
(* Drill-down: each row of the dashboard table links to the test list of    *)
(* its group, /tests?model=<config key>.                                    *)

sMPlus == <<109, 43>>   \* "m+"

\* {"timestamp":"4","model":"m+","scores":{"combined":0.6}}
LinePlus == ObjLine(<<Fld(kTimestamp, JStr(s4)), Fld(kModel, JStr(sMPlus)),
                      Fld(kScores, JObj(<<Fld(kCombined, JNum(6))>>))>>)

DrillPool == {LineA, LineB, LineNoModel, LinePlus}

\* main(): the server starts over one store that already holds records
InitDrill ==
    /\ \E lines \in SeqsUpTo(DrillPool, MaxRecords), k \in 0..(MapOrders - 1) :
          \E r \in {reloadData(<<StoreOf(lines)>>, k)} :
             /\ files = <<StoreOf(lines)>>
             /\ evalData = [r.data EXCEPT !.Results = 1]
             /\ heap = <<r.data.Results>>
    /\ procs = <<>>
    /\ lastReload = [called |-> TRUE, ret |-> "nil"]
    /\ response = IdleResponse
    /\ input = <<>>
    /\ output = NoOutput
    /\ now = 0
    /\ page = NoPage

\* the user clicks a row of the dashboard just served: the browser requests
\* /tests?model=K with the key K as the template wrote it into the link
FollowLink ==
    /\ response.handler = "dashboard"
    /\ \E k \in 0..(MapOrders - 1) :
         \E r \in {reloadData(files, k)} :
           \E K \in Range(response.Models) :
              TestsResponse(r, k, K, <<>>)

NextDrill == dashboardHandler \/ FollowLink

SpecDrill == InitDrill /\ [][NextDrill]_vars

\* C27: the drill-down agrees with the summary: for every key K of Models, a
\* request /tests?model=K without run_id, over the same files, selects exactly
\* the records whose config key is K, as many as ModelStats[K].TestCount, and
\* lists them by Timestamp descending.
C27_DrillDownMatchesSummary ==
    (/\ response.handler = "tests"
     /\ response.run_id = <<>>
     /\ response.query \in Range(evalData.Models)) =>
        LET K == response.query
            ofK == SelectSeq(ConcatStores(files), LAMBDA x : buildConfigKey(x, 0) = K)
        IN /\ Len(response.results) = evalData.ModelStats[K].TestCount
           /\ \E f \in Permutations(DOMAIN ofK) :
                 response.results = [i \in DOMAIN ofK |-> ofK[f[i]]]
           /\ \A i \in 1..(Len(response.results) - 1) :
                 ~StrLess(response.results[i].Timestamp, response.results[i+1].Timestamp)

----------------------------------------------------------------------------
(* The server with requests in flight at once.  net/http runs each handler  *)
(* in its own goroutine; evalData is a plain global struct, written by      *)
(* `evalData = CalculateStats(...)` and read field by field with no lock.   *)

\* the handler goroutines
Procs == {"h1", "h2"}

\* the records an evaluation run appends to the store while the server runs
ConcAppends == <<LineA, LineB>>

\* the fields of DashboardData, in declaration order
FieldOrder == <<"TotalTests", "AvgScore", "Models", "Results", "ModelStats",
                "CustomScores", "CustomFieldNames", "CustomFieldTypes">>

\* the reads of the global evalData a handler makes after reloadData, in
\* program order ("ResultsWithScores" is the second read of evalData.Results
\* in evalsAPIHandler)
ReadOrder(handler) ==
    CASE handler = "health" -> <<"TotalTests", "Models">>
      [] handler = "tests" -> <<"Results">>
      [] OTHER -> FieldOrder \o <<"ResultsWithScores">>

GlobalField(name) == IF name = "ResultsWithScores" THEN "Results" ELSE name

IdleProc == [pc |-> "idle", handler |-> "none", data |-> IdleData, next |-> 1,
             snap |-> <<>>, resp |-> IdleResponse]

InitConc ==
    /\ files = <<[readable |-> TRUE, lines |-> <<>>]>>
    /\ evalData = [CalculateStats(<<>>, 0) EXCEPT !.Results = 1]
    /\ heap = << <<>> >>
    /\ procs = [p \in Procs |-> IdleProc]
    /\ lastReload = IdleReload
    /\ response = IdleResponse
    /\ input = <<>>
    /\ output = NoOutput
    /\ now = 0
    /\ page = NoPage

\* an evaluation run appends a record to the store
ConcAppend ==
    /\ Len(files[1].lines) < Len(ConcAppends)
    /\ files' = [files EXCEPT ![1].lines = Append(@, ConcAppends[Len(@) + 1])]
    /\ UNCHANGED <<evalData, heap, procs, lastReload, response, input, output, now, page>>

\* a request arrives and its handler starts
Accept(p) ==
    /\ procs[p].pc = "idle"
    /\ \E h \in {"tests", "api", "health"} :
          procs' = [procs EXCEPT ![p].handler = h,
                                 ![p].pc = IF h = "health" THEN "read" ELSE "load"]
    /\ UNCHANGED <<files, evalData, heap, lastReload, response, input, output, now, page>>

\* reloadData up to the call of CalculateStats: the result is built in a
\* temporary, its Results slice over a new array
Load(p) ==
    /\ procs[p].pc = "load"
    /\ \E k \in 0..(MapOrders - 1) :
          \E r \in {reloadData(files, k)} :
             /\ heap' = Append(heap, r.data.Results)
             /\ procs' = [procs EXCEPT ![p].data = [r.data EXCEPT !.Results = Len(heap) + 1],
                                       ![p].pc = "store", ![p].next = 1]
    /\ UNCHANGED <<files, evalData, lastReload, response, input, output, now, page>>

\* the assignment to evalData copies the temporary one field at a time
Store(p) ==
    /\ procs[p].pc = "store"
    /\ LET f == FieldOrder[procs[p].next]
           last == procs[p].next = Len(FieldOrder)
       IN /\ evalData' = [evalData EXCEPT ![f] = procs[p].data[f]]
          /\ procs' = [procs EXCEPT ![p].next = IF last THEN 1 ELSE @ + 1,
                                    ![p].pc = IF last THEN "read" ELSE "store"]
    /\ UNCHANGED <<files, heap, lastReload, response, input, output, now, page>>

\* one read of a field of the global evalData
Read(p) ==
    /\ procs[p].pc = "read"
    /\ LET order == ReadOrder(procs[p].handler)
           f == order[procs[p].next]
           last == procs[p].next = Len(order)
       IN procs' = [procs EXCEPT ![p].snap = (f :> evalData[GlobalField(f)]) @@ @,
                                 ![p].next = IF last THEN 1 ELSE @ + 1,
                                 ![p].pc = IF last THEN "respond" ELSE "read"]
    /\ UNCHANGED <<files, evalData, heap, lastReload, response, input, output, now, page>>

\* the rest of the handler: testsHandler (no filter) sorts the slice it read
\* from evalData.Results, evalsAPIHandler encodes its copy, healthHandler
\* prints the two numbers
Respond(p) ==
    /\ procs[p].pc = "respond"
    /\ LET snap == procs[p].snap
       IN CASE procs[p].handler = "tests" ->
                  \E sorted \in SortedByTimestampDesc(heap[snap.Results]) :
                      /\ heap' = [heap EXCEPT ![snap.Results] = sorted]
                      /\ procs' = [procs EXCEPT ![p].pc = "done",
                                      ![p].resp = [handler |-> "tests", status |-> 200,
                                                   results |-> sorted]]
            [] procs[p].handler = "api" ->
                  /\ heap' = heap
                  /\ procs' = [procs EXCEPT ![p].pc = "done",
                                  ![p].resp = [handler |-> "api", status |-> 200,
                                               TotalTests |-> snap.TotalTests,
                                               Models |-> snap.Models,
                                               results |-> heap[snap.ResultsWithScores]]]
            [] OTHER ->
                  /\ heap' = heap
                  /\ procs' = [procs EXCEPT ![p].pc = "done",
                                  ![p].resp = [handler |-> "health", status |-> 200,
                                               total_tests |-> snap.TotalTests,
                                               models |-> Len(snap.Models)]]
    /\ UNCHANGED <<files, evalData, lastReload, response, input, output, now, page>>

NextConc ==
    \/ ConcAppend
    \/ \E p \in Procs : Accept(p)
    \/ \E p \in Procs : Load(p)
    \/ \E p \in Procs : Store(p)
    \/ \E p \in Procs : Read(p)
    \/ \E p \in Procs : Respond(p)

SpecConc == InitConc /\ [][NextConc]_vars

\* the result reloadData builds from the first n lines of the store
StatsOfPrefix(n) == CalculateStats(LoadFiles(<<[files[1] EXCEPT !.lines = SubSeq(@, 1, n)]>>, <<>>), 0)

\* C1 (as stated): what a handler has read of evalData is one complete
\* published result: all the fields it read are those of the result of one
\* refresh, never fields of two results.
C1_ReadsSeeOneResult ==
    \A p \in Procs :
        (procs[p].pc \in {"respond", "done"} /\ procs[p].handler \in {"health", "api"}) =>
            \E n \in 0..Len(files[1].lines) :
                \A f \in DOMAIN procs[p].snap \ {"Results", "ResultsWithScores"} :
                    procs[p].snap[f] = StatsOfPrefix(n)[f]

\* C2 (as stated): the Results array of the published result is never
\* modified in place by a later operation.
C2_PublishedNeverModified ==
    [][heap'[evalData.Results] = heap[evalData.Results]]_vars

\* C25: with a store that is only appended to and refreshes run by several
\* requests at once, the published result never goes back in time: the
\* number of records it reports never decreases.
C25_PublishedNeverGoesBack ==
    [][evalData'.TotalTests >= evalData.TotalTests]_vars

\* C26: a response is computed from a single published result: the summary
\* and the records of /api/evals, and the two numbers of /health, are those
\* of the result of one refresh.
C26_ResponseFromOneResult ==
    \A p \in Procs :
        procs[p].pc = "done" =>
            \E n \in 0..Len(files[1].lines) :
                \E d \in {StatsOfPrefix(n)} :
                    CASE procs[p].handler = "api" ->
                             /\ procs[p].resp.TotalTests = d.TotalTests
                             /\ procs[p].resp.Models = d.Models
                             /\ Len(procs[p].resp.results) = Len(d.Results)
                      [] procs[p].handler = "health" ->
                             /\ procs[p].resp.total_tests = d.TotalTests
                             /\ procs[p].resp.models = Len(d.Models)
                      [] OTHER -> TRUE

----------------------------------------------------------------------------
(* Smart polling: the dashboard page remembers when it was loaded and asks  *)
(* /api/evals/since for the records stamped after that; evaluation runs     *)
(* append records stamped with their own clock.                             *)

\* number of half seconds the clock advances
MaxTicks == 3

\* the second shown by a UTC clock at tick t
SecondOf(t) == 1 + (t \div 2)

\* new Date().toISOString(): UTC with milliseconds, "<second>.<ms>Z"
toISOString(t) == <<48 + SecondOf(t), 46, 48 + 5 * (t % 2), 90>>

\* the offsets from UTC, in clock units, of the machines that write records
Zones == {0 - 1, 0}

\* time.Now().Format(time.RFC3339): local time to the second, followed by
\* "Z" in UTC and by the signed offset elsewhere
RFC3339(t, zone) ==
    <<48 + SecondOf(t) + zone>> \o
        (IF zone = 0 THEN <<90>>
         ELSE IF zone < 0 THEN <<45, 48 - zone>> ELSE <<43, 48 + zone>>)

\* {"timestamp":ts,"model":"m","scores":{"combined":8}}
StampedLine(ts) ==
    ObjLine(<<Fld(kTimestamp, JStr(ts)), Fld(kModel, JStr(sM)),
              Fld(kScores, JObj(<<Fld(kCombined, JNum(8))>>))>>)

\* main() with the default store evals.jsonl, empty at startup
InitPoll ==
    /\ files = <<[readable |-> TRUE, lines |-> <<>>]>>
    /\ evalData = [CalculateStats(<<>>, 0) EXCEPT !.Results = 1]
    /\ heap = << <<>> >>
    /\ procs = <<>>
    /\ lastReload = IdleReload
    /\ response = IdleResponse
    /\ input = <<>>
    /\ output = NoOutput
    /\ now = 0
    /\ page = [loaded |-> FALSE, autoRefresh |-> TRUE]

\* half a second passes
Tick ==
    /\ now < MaxTicks
    /\ now' = now + 1
    /\ UNCHANGED <<files, evalData, heap, procs, lastReload, response, input, output, page>>

\* an evaluation run appends a record stamped with the time of its machine
EvalRun ==
    /\ StoredLines(files) < MaxStored
    /\ \E zone \in Zones :
          files' = [files EXCEPT ![1].lines = Append(@, StampedLine(RFC3339(now, zone)))]
    /\ response' = IdleResponse
    /\ UNCHANGED <<evalData, heap, procs, lastReload, input, output, now, page>>

\* the browser requests / (first visit, the R key, or location.reload()):
\* dashboardHandler answers and the script of the new page starts
PageLoad ==
    /\ \E k \in 0..(MapOrders - 1) :
        \E r \in {reloadData(files, k)} :
           /\ ReloadAndPublish(r)
           /\ heap' = <<r.data.Results>>
           /\ response' = [handler |-> "dashboard", status |-> 200, log |-> r.outcomes,
                           TotalTests |-> r.data.TotalTests, Models |-> r.data.Models]
    /\ page' = [loaded |-> TRUE, autoRefresh |-> page.autoRefresh,
                lastTimestamp |-> toISOString(now),
                atLoad |-> Len(files[1].lines),
                polled |-> FALSE, atPoll |-> 0, newEvals |-> <<>>, reload |-> FALSE]
    /\ UNCHANGED <<files, procs, input, output, now>>

\* the checkbox of the page is clicked
ToggleAutoRefresh ==
    /\ page.loaded /\ ~page.reload
    /\ page' = [page EXCEPT !.autoRefresh = ~@]
    /\ UNCHANGED <<files, evalData, heap, procs, lastReload, response, input, output, now>>

\* the timer of the page fires: pollForUpdates fetches /api/evals/since with
\* ts = lastTimestamp, evalsSinceHandler answers, and the page calls
\* location.reload() when the answer holds a record
Poll ==
    /\ page.loaded /\ page.autoRefresh /\ ~page.reload
    /\ \E k \in 0..(MapOrders - 1) :
        \E r \in {reloadData(files, k)} :
         \E newResults \in {SelectSeq(r.data.Results,
                                LAMBDA x : StrLess(page.lastTimestamp, x.Timestamp))} :
           /\ ReloadAndPublish(r)
           /\ heap' = <<r.data.Results>>
           /\ response' = [handler |-> "since", status |-> 200, log |-> r.outcomes,
                           ts |-> page.lastTimestamp, results |-> newResults]
           /\ page' = [page EXCEPT !.polled = TRUE,
                                   !.atPoll = Len(files[1].lines),
                                   !.newEvals = newResults,
                                   !.reload = Len(newResults) > 0]
    /\ UNCHANGED <<files, procs, input, output, now>>

NextPoll == Tick \/ EvalRun \/ PageLoad \/ ToggleAutoRefresh \/ Poll

SpecPoll == InitPoll /\ [][NextPoll]_vars

\* the records appended to the store between the load of the page and its
\* last poll
AddedSinceLoad ==
    RecordsOf(SubSeq(files[1].lines, page.atLoad + 1, page.atPoll))

\* C20 (as stated): a poll of the page returns every record added to the
\* store since the page was loaded and makes the page reload; when no record
\* was added since the load, the poll returns no record and the page does
\* not reload.
C20_PollDetectsNewData ==
    (page.loaded /\ page.polled) =>
        /\ \A i \in DOMAIN AddedSinceLoad :
              \E j \in DOMAIN page.newEvals : page.newEvals[j] = AddedSinceLoad[i]
        /\ AddedSinceLoad # <<>> => page.reload
        /\ AddedSinceLoad = <<>> => (page.newEvals = <<>> /\ ~page.reload)

====
